---- MODULE Spec2Model ----
(***************************************************************************)
(* Persistence layer of the CMS: the Page, Media, Settings and User        *)
(* schemas with their save hooks, instance methods and static queries.     *)
(*                                                                         *)
(* A document lives twice: as the record persisted in the store and as    *)
(* the in-memory copies callers hold.  save() on a copy runs the schema    *)
(* validation, the pre('save') hooks, writes the paths marked modified     *)
(* ($set, array pushes as $push), clears the modification marks and then   *)
(* runs the post('save') hooks.                                            *)
(*                                                                         *)
(* Text is a sequence of character codes; a timestamp is a positive        *)
(* integer, Null stands for null/undefined.                                *)
(***************************************************************************)
EXTENDS Integers, Sequences, FiniteSets, TLC

VARIABLES
    now,          \* the wall clock read by new Date() / Date.now()
    pageStore,    \* the persisted Page document
    pageDoc,      \* the in-memory Page copy each editor holds
    pageRes,      \* outcome of the last Page call: [op, arg, outcome]
    pvCalls,      \* number of incrementPageView calls that hit the page
    mediaStore,   \* the persisted Media document
    mediaDoc,     \* the in-memory Media copy each caller holds
    mediaRes,     \* outcome of the last Media call: [op, by, outcome]
    mediaCalls,   \* number of increment calls made, per counter
    mediaColl,    \* the media collection the static queries run over
    queryRes,     \* the last static Media query and the documents it returned
    settingsStore, \* the persisted Settings document (Null before the first save)
    settingsDoc,  \* the in-memory Settings document
    settingsRes,  \* outcome of the last Settings call
    userStore,    \* the persisted User document
    userDoc,      \* the in-memory User document
    userRes,      \* outcome of the last User call
    userPlain,    \* the plaintext behind the persisted password hash
    userRet,      \* the value the last User method call returned
    dbEnv,        \* process.env as read when the database module is loaded
    dbProc,       \* the process: running or exited, and its mongoose connection
    dbRes,        \* the last connectDB / disconnectDB call and what it returned
    seoDoc,       \* the in-memory SEO document
    seoRes        \* the last SEO call and the value it gave

pageVars == <<pageStore, pageDoc, pageRes, pvCalls>>
mediaVars == <<mediaStore, mediaDoc, mediaRes, mediaCalls>>
queryVars == <<mediaColl, queryRes>>
settingsVars == <<settingsStore, settingsDoc, settingsRes>>
userVars == <<userStore, userDoc, userRes, userPlain, userRet>>
dbVars == <<dbEnv, dbProc, dbRes>>
seoVars == <<seoDoc, seoRes>>

nonPageVars == <<mediaVars, queryVars, settingsVars, userVars, dbVars, seoVars>>
nonMediaVars == <<pageVars, queryVars, settingsVars, userVars, dbVars, seoVars>>
nonQueryVars == <<now, pageVars, mediaVars, settingsVars, userVars, dbVars, seoVars>>
nonSettingsVars == <<now, pageVars, mediaVars, queryVars, userVars, dbVars, seoVars>>
nonUserVars == <<now, pageVars, mediaVars, queryVars, settingsVars, dbVars, seoVars>>
nonDbVars == <<now, pageVars, mediaVars, queryVars, settingsVars, userVars, seoVars>>
nonSeoVars == <<now, pageVars, mediaVars, queryVars, settingsVars, userVars, dbVars>>

----------------------------------------------------------------------------
(* Bounds *)

MaxTime == 2          \* the clock runs over 1..MaxTime
MaxViews == 2         \* cap on the number of counter-increment calls

\* null / undefined: a value outside every data range of the model
Null == -1000

Editors == {1, 2}

Min(a, b) == IF a < b THEN a ELSE b

\* String.prototype.substring(0, n)
Substring(s, n) == SubSeq(s, 1, Min(n, Len(s)))

\* A document path is marked modified only when the assigned value differs.
SetPath(d, path, val) ==
    IF d[path] = val THEN d
    ELSE [d EXCEPT ![path] = val, !.modified = @ \cup {path}]

IsModified(d, path) == path \in d.modified

\* Mongoose clears the modification marks once the write has been issued,
\* before any post('save') hook runs.
ResetModified(d) == [d EXCEPT !.modified = {}]

----------------------------------------------------------------------------
(* Page *)

MetaTitleMax == 60
MetaDescriptionMax == 160

TitleA == <<1>>
TitleB == <<2>>
TitleLong == [i \in 1..(MetaTitleMax + 1) |-> 3]
ContentA == <<1>>
ContentB == <<2>>
ExcerptLong == [i \in 1..(MetaDescriptionMax + 1) |-> 4]

PageStatuses == {"draft", "published", "scheduled", "archived"}

\* Paths persisted with $set when modified.
PageSetPaths == {"title", "content", "excerpt", "status", "publishedAt",
                 "updatedAt", "metaTitle", "metaDescription", "pageViews",
                 "uniqueVisitors", "lastAnalyticsUpdate", "enableComments",
                 "currentVersion"}

RECURSIVE ApplySet(_, _, _)
ApplySet(st, d, paths) ==
    IF paths = {} THEN st
    ELSE LET p == CHOOSE x \in paths : TRUE
         IN ApplySet([st EXCEPT ![p] = d[p]], d, paths \ {p})

TitleMaxLength == 200
ExcerptMaxLength == 500

\* Variant of the schema validation without the status enum.
PageValid_NoEnum(d) ==
    /\ Len(d.title) > 0
    /\ Len(d.title) <= TitleMaxLength
    /\ Len(d.content) > 0
    /\ Len(d.excerpt) <= ExcerptMaxLength
    /\ Len(d.metaTitle) <= MetaTitleMax
    /\ Len(d.metaDescription) <= MetaDescriptionMax

\* Schema validation run by save() before the pre('save') hooks:
\* title and content are required strings, status is an enum, title,
\* excerpt, seo.metaTitle and seo.metaDescription have a maxlength.
PageValid(d) ==
    /\ Len(d.title) > 0
    /\ Len(d.title) <= TitleMaxLength
    /\ Len(d.content) > 0
    /\ Len(d.excerpt) <= ExcerptMaxLength
    /\ d.status \in PageStatuses
    /\ Len(d.metaTitle) <= MetaTitleMax
    /\ Len(d.metaDescription) <= MetaDescriptionMax

\* Variant of the pre('save') hook that stamps publishedAt on every save of
\* a published page (the !this.publishedAt test dropped).
PagePreSave_AlwaysStamp(d, t) ==
    LET d1 == SetPath(d, "updatedAt", t)
        d2 == IF d1.status = "published"
              THEN SetPath(d1, "publishedAt", t) ELSE d1
        d3 == IF Len(d2.metaTitle) = 0 /\ Len(d2.title) > 0
              THEN SetPath(d2, "metaTitle", Substring(d2.title, MetaTitleMax)) ELSE d2
        d4 == IF Len(d3.metaDescription) = 0 /\ Len(d3.excerpt) > 0
              THEN SetPath(d3, "metaDescription", Substring(d3.excerpt, MetaDescriptionMax))
              ELSE d3
    IN d4

\* Variant of the pre('save') hook without the publishedAt stamp.
PagePreSave_NoStamp(d, t) ==
    LET d1 == SetPath(d, "updatedAt", t)
        d3 == IF Len(d1.metaTitle) = 0 /\ Len(d1.title) > 0
              THEN SetPath(d1, "metaTitle", Substring(d1.title, MetaTitleMax)) ELSE d1
        d4 == IF Len(d3.metaDescription) = 0 /\ Len(d3.excerpt) > 0
              THEN SetPath(d3, "metaDescription", Substring(d3.excerpt, MetaDescriptionMax))
              ELSE d3
    IN d4

\* Variant of the pre('save') hook that regenerates the meta title and the
\* meta description on every save (the tests for a provided value dropped).
PagePreSave_OverwriteMeta(d, t) ==
    LET d1 == SetPath(d, "updatedAt", t)
        d2 == IF d1.status = "published" /\ d1.publishedAt = Null
              THEN SetPath(d1, "publishedAt", t) ELSE d1
        d3 == IF Len(d2.title) > 0
              THEN SetPath(d2, "metaTitle", Substring(d2.title, MetaTitleMax)) ELSE d2
        d4 == IF Len(d3.excerpt) > 0
              THEN SetPath(d3, "metaDescription", Substring(d3.excerpt, MetaDescriptionMax))
              ELSE d3
    IN d4

\* PageSchema.pre('save')
PagePreSave(d, t) ==
    LET d1 == SetPath(d, "updatedAt", t)
        d2 == IF d1.status = "published" /\ d1.publishedAt = Null
              THEN SetPath(d1, "publishedAt", t) ELSE d1
        d3 == IF Len(d2.metaTitle) = 0 /\ Len(d2.title) > 0
              THEN SetPath(d2, "metaTitle", Substring(d2.title, MetaTitleMax)) ELSE d2
        d4 == IF Len(d3.metaDescription) = 0 /\ Len(d3.excerpt) > 0
              THEN SetPath(d3, "metaDescription", Substring(d3.excerpt, MetaDescriptionMax))
              ELSE d3
    IN d4

\* Variant of the primary write that replaces the whole stored document by
\* the saved copy instead of writing the modified paths.
PageWrite_WholeDocument(st, d) ==
    LET s1 == ApplySet(st, d, PageSetPaths)
    IN [s1 EXCEPT !.versionHistory = d.versionHistory,
                  !.relatedPages = d.relatedPages]

\* Variant of the primary write that also appends the version entry of a
\* content change.
PageWrite_WithHistory(st, d) ==
    LET s1 == ApplySet(st, d, d.modified \cap PageSetPaths)
        entry == [versionNumber |-> d.currentVersion, title |-> d.title,
                  content |-> d.content, createdAt |-> d.updatedAt]
    IN [s1 EXCEPT !.versionHistory =
                      IF d.enableVersioning /\ IsModified(d, "content")
                      THEN Append(@ \o d.pushHistory, entry)
                      ELSE @ \o d.pushHistory,
                  !.relatedPages = @ \o d.pushRelated]

\* The primary write of save(): $set of the modified paths, $push of the
\* array elements pushed since the last save.
PageWrite(st, d) ==
    LET s1 == ApplySet(st, d, d.modified \cap PageSetPaths)
    IN [s1 EXCEPT !.versionHistory = @ \o d.pushHistory,
                  !.relatedPages = @ \o d.pushRelated]

\* Variant of the post('save') hook that appends an entry after every save
\* of a versioned page and does not advance currentVersion.
PagePostSave_AppendOnly(d, t) ==
    IF d.enableVersioning
    THEN LET entry == [versionNumber |-> d.currentVersion, title |-> d.title,
                       content |-> d.content, createdAt |-> t]
         IN [d EXCEPT !.versionHistory = Append(@, entry),
                      !.pushHistory = Append(@, entry),
                      !.modified = @ \cup {"versionHistory"}]
    ELSE d

\* PageSchema.post('save'): runs on the saved document, after the reset.
PagePostSave(d, t) ==
    IF d.enableVersioning /\ IsModified(d, "content")
    THEN LET entry == [versionNumber |-> d.currentVersion, title |-> d.title,
                       content |-> d.content, createdAt |-> t]
         IN [d EXCEPT !.versionHistory = Append(@, entry),
                      !.pushHistory = Append(@, entry),
                      !.currentVersion = @ + 1,
                      !.modified = @ \cup {"versionHistory", "currentVersion"}]
    ELSE d

\* The reset after the write also forgets the pushes it has just sent.
PageReset(d) == [ResetModified(d) EXCEPT !.pushHistory = <<>>, !.pushRelated = <<>>]

\* document.save(): validation, pre hook, write, reset, post hook.
PageSaveResult(d, st, t) ==
    IF ~PageValid(d)
    THEN [ok |-> FALSE, doc |-> d, store |-> st]
    ELSE LET d1 == PagePreSave(d, t)
         IN [ok |-> TRUE,
             doc |-> PagePostSave(PageReset(d1), t),
             store |-> PageWrite(st, d1)]

\* Page.findById(): a fresh in-memory copy of the persisted document.
PageLoaded(st) ==
    [title |-> st.title, content |-> st.content, excerpt |-> st.excerpt,
     status |-> st.status, publishedAt |-> st.publishedAt,
     updatedAt |-> st.updatedAt, metaTitle |-> st.metaTitle,
     metaDescription |-> st.metaDescription, pageViews |-> st.pageViews,
     uniqueVisitors |-> st.uniqueVisitors,
     lastAnalyticsUpdate |-> st.lastAnalyticsUpdate,
     relatedPages |-> st.relatedPages, enableComments |-> st.enableComments,
     enableVersioning |-> st.enableVersioning,
     versionHistory |-> st.versionHistory, currentVersion |-> st.currentVersion,
     modified |-> {}, pushHistory |-> <<>>, pushRelated |-> <<>>]

\* A page as first created: schema defaults plus the caller's title/content;
\* seeded is a history imported with the page.
NewPage(versioning, seeded) ==
    [title |-> TitleA, content |-> ContentA, excerpt |-> <<>>,
     status |-> "draft", publishedAt |-> Null, updatedAt |-> 1,
     metaTitle |-> <<>>, metaDescription |-> <<>>, pageViews |-> 0,
     uniqueVisitors |-> 0, lastAnalyticsUpdate |-> Null,
     relatedPages |-> <<>>, enableComments |-> FALSE,
     enableVersioning |-> versioning,
     versionHistory |-> seeded, currentVersion |-> Len(seeded) + 1]

SeededHistories ==
    { <<>>,
      <<[versionNumber |-> 1, title |-> TitleB, content |-> ContentB, createdAt |-> 1]>> }

PageInit ==
    /\ \E v \in BOOLEAN, h \in SeededHistories : pageStore = NewPage(v, h)
    /\ pageDoc = [e \in Editors |-> PageLoaded(pageStore)]
    /\ pageRes = [op |-> "none", arg |-> 0, outcome |-> "none"]
    /\ pvCalls = 0

Outcome(ok) == IF ok THEN "ok" ELSE "ValidationError"

\* The shared tail of every instance method: return this.save().
PageSaveAs(e, d, op, arg) ==
    LET r == PageSaveResult(d, pageStore, now)
    IN /\ pageDoc' = [pageDoc EXCEPT ![e] = r.doc]
       /\ pageStore' = r.store
       /\ pageRes' = [op |-> op, arg |-> arg, outcome |-> Outcome(r.ok)]
       /\ UNCHANGED <<now, pvCalls, nonPageVars>>

PageSetField(e, path, val) ==
    /\ pageDoc' = [pageDoc EXCEPT ![e] = SetPath(@, path, val)]
    /\ pageRes' = [op |-> "set", arg |-> 0, outcome |-> "ok"]
    /\ UNCHANGED <<now, pageStore, pvCalls, nonPageVars>>

PageLoad(e) ==
    /\ pageDoc' = [pageDoc EXCEPT ![e] = PageLoaded(pageStore)]
    /\ pageRes' = [op |-> "load", arg |-> 0, outcome |-> "ok"]
    /\ UNCHANGED <<now, pageStore, pvCalls, nonPageVars>>

\* page.save() called directly
PageSave(e) == PageSaveAs(e, pageDoc[e], "save", 0)

\* Variant of publish that refuses to publish an archived page.
Publish_RefuseArchived(e) ==
    IF pageDoc[e].status = "archived"
    THEN /\ pageRes' = [op |-> "publish", arg |-> 0, outcome |-> "InvalidTransition"]
         /\ UNCHANGED <<now, pageStore, pageDoc, pvCalls, nonPageVars>>
    ELSE PageSaveAs(e, SetPath(SetPath(pageDoc[e], "status", "published"),
                               "publishedAt", now),
                    "publish", 0)

\* save() in two steps, for the executions that stop in between.  First
\* step: validation, pre('save') hook and the primary write; the post('save')
\* hook is still to run.
SaveInFlight == pageRes.outcome = "written"

PageSaveBegin(e) ==
    LET d == pageDoc[e]
        d1 == PagePreSave(d, now)
    IN /\ ~SaveInFlight
       /\ IF ~PageValid(d)
          THEN /\ pageRes' = [op |-> "save", arg |-> 0, outcome |-> "ValidationError"]
               /\ UNCHANGED <<pageDoc, pageStore>>
          ELSE /\ pageStore' = PageWrite(pageStore, d1)
               /\ pageDoc' = [pageDoc EXCEPT ![e] = PageReset(d1)]
               /\ pageRes' = [op |-> "save", arg |-> 0, outcome |-> "written"]
       /\ UNCHANGED <<now, pvCalls, nonPageVars>>

\* Second step: the post('save') hook runs on the saved document.
PageSaveFinish(e) ==
    /\ SaveInFlight
    /\ pageDoc' = [pageDoc EXCEPT ![e] = PagePostSave(@, now)]
    /\ pageRes' = [op |-> "save", arg |-> 0, outcome |-> "ok"]
    /\ UNCHANGED <<now, pageStore, pvCalls, nonPageVars>>

\* The process stops after the primary write, before the post('save') hook;
\* pageDoc keeps the document the process held when it stopped.
PageCrash(e) ==
    /\ SaveInFlight
    /\ pageRes' = [op |-> "save", arg |-> 0, outcome |-> "crashed"]
    /\ UNCHANGED <<now, pageStore, pageDoc, pvCalls, nonPageVars>>

\* PageSchema.methods.publish
Publish(e) ==
    PageSaveAs(e, SetPath(SetPath(pageDoc[e], "status", "published"), "publishedAt", now),
               "publish", 0)

\* PageSchema.methods.archive
Archive(e) == PageSaveAs(e, SetPath(pageDoc[e], "status", "archived"), "archive", 0)

\* Array.prototype.find over versionHistory: the first matching entry.
FindVersion(hist, vn) ==
    LET hits == {i \in 1..Len(hist) : hist[i].versionNumber = vn}
    IN IF hits = {} THEN Null
       ELSE CHOOSE i \in hits : \A j \in hits : i <= j

\* Variant of revert that drops the entries after the one it restores.
Revert_Truncate(e, vn) ==
    LET d == pageDoc[e]
        i == FindVersion(d.versionHistory, vn)
    IN IF i = Null
       THEN /\ pageRes' = [op |-> "revert", arg |-> vn,
                           outcome |-> "VersionNotFound"]
            /\ UNCHANGED <<now, pageStore, pageDoc, pvCalls, nonPageVars>>
       ELSE PageSaveAs(e,
                [SetPath(SetPath(d, "content", d.versionHistory[i].content),
                         "title", d.versionHistory[i].title)
                    EXCEPT !.versionHistory = SubSeq(@, 1, i)],
                "revert", vn)

\* Variant of revert that overwrites title/content before looking at the
\* result of the lookup.
Revert_AssignFirst(e, vn) ==
    LET d == pageDoc[e]
        i == FindVersion(d.versionHistory, vn)
    IN IF i = Null
       THEN /\ pageDoc' = [pageDoc EXCEPT ![e] =
                              SetPath(SetPath(d, "content", <<>>), "title", <<>>)]
            /\ pageRes' = [op |-> "revert", arg |-> vn, outcome |-> "VersionNotFound"]
            /\ UNCHANGED <<now, pageStore, pvCalls, nonPageVars>>
       ELSE PageSaveAs(e,
                SetPath(SetPath(d, "content", d.versionHistory[i].content),
                        "title", d.versionHistory[i].title),
                "revert", vn)

\* PageSchema.methods.revert
Revert(e, vn) ==
    LET d == pageDoc[e]
        i == FindVersion(d.versionHistory, vn)
    IN IF i = Null
       THEN /\ pageRes' = [op |-> "revert", arg |-> vn,
                           outcome |-> "VersionNotFound"]
            /\ UNCHANGED <<now, pageStore, pageDoc, pvCalls, nonPageVars>>
       ELSE PageSaveAs(e,
                SetPath(SetPath(d, "content", d.versionHistory[i].content),
                        "title", d.versionHistory[i].title),
                "revert", vn)

RECURSIVE AssignAll(_, _, _)
\* Object.assign(target, data) on tracked paths
AssignAll(d, data, keys) ==
    IF keys = {} THEN d
    ELSE LET k == CHOOSE x \in keys : TRUE
         IN AssignAll(SetPath(d, k, data[k]), data, keys \ {k})

\* PageSchema.methods.updateAnalytics
UpdateAnalytics(e, data) ==
    PageSaveAs(e,
        SetPath(AssignAll(pageDoc[e], data, DOMAIN data), "lastAnalyticsUpdate", now),
        "updateAnalytics", 0)

\* PageSchema.methods.addRelatedPage
AddRelatedPage(e, pid) ==
    LET d == pageDoc[e]
        has == \E i \in 1..Len(d.relatedPages) : d.relatedPages[i] = pid
        d1 == IF has THEN d
              ELSE [d EXCEPT !.relatedPages = Append(@, pid),
                             !.pushRelated = Append(@, pid),
                             !.modified = @ \cup {"relatedPages"}]
    IN PageSaveAs(e, d1, "addRelatedPage", 0)

\* PageSchema.methods.toggleComments
ToggleComments(e, enabled) ==
    PageSaveAs(e, SetPath(pageDoc[e], "enableComments", enabled), "toggleComments", 0)

ThePage == "page-1"
PageIds == {ThePage, "page-404"}

\* Variant of incrementPageView written as the instance methods are: add one
\* to a loaded copy and write the sum back.
IncrementPageView_ReadModifyWrite(pid) ==
    /\ pvCalls < MaxViews
    /\ IF pid = ThePage
       THEN /\ pageStore' = [pageStore EXCEPT !.pageViews = pageDoc[1].pageViews + 1]
            /\ pvCalls' = pvCalls + 1
            /\ pageRes' = [op |-> "incrementPageView", arg |-> 0, outcome |-> "ok"]
       ELSE /\ pageRes' = [op |-> "incrementPageView", arg |-> 0, outcome |-> "null"]
            /\ UNCHANGED <<pageStore, pvCalls>>
    /\ UNCHANGED <<now, pageDoc, nonPageVars>>

\* PageSchema.statics.incrementPageView: one findByIdAndUpdate with $inc.
IncrementPageView(pid) ==
    /\ pvCalls < MaxViews
    /\ IF pid = ThePage
       THEN /\ pageStore' = [pageStore EXCEPT !.pageViews = @ + 1]
            /\ pvCalls' = pvCalls + 1
            /\ pageRes' = [op |-> "incrementPageView", arg |-> 0,
                           outcome |-> "ok"]
       ELSE /\ pageRes' = [op |-> "incrementPageView", arg |-> 0,
                           outcome |-> "null"]
            /\ UNCHANGED <<pageStore, pvCalls>>
    /\ UNCHANGED <<now, pageDoc, nonPageVars>>

Tick ==
    /\ now < MaxTime
    /\ now' = now + 1
    /\ UNCHANGED <<pageVars, nonPageVars>>

----------------------------------------------------------------------------
(* Media *)

Callers == {1, 2}

\* The tag alphabet; a tag is a sequence of these characters.
UpperA == "A"
LowerA == "a"
LowerB == "b"
Blank == " "
Chars == {UpperA, LowerA, LowerB, Blank}

\* String.prototype.toLowerCase
ToLowerCase(s) == [i \in 1..Len(s) |-> IF s[i] = UpperA THEN LowerA ELSE s[i]]

RECURSIVE TrimStart(_)
TrimStart(s) == IF Len(s) > 0 /\ s[1] = Blank THEN TrimStart(Tail(s)) ELSE s

RECURSIVE TrimEnd(_)
TrimEnd(s) ==
    IF Len(s) > 0 /\ s[Len(s)] = Blank THEN TrimEnd(SubSeq(s, 1, Len(s) - 1)) ELSE s

\* String.prototype.trim
Trim(s) == TrimEnd(TrimStart(s))

InSeq(x, q) == \E i \in 1..Len(q) : q[i] = x

RECURSIVE SetSpread(_, _)
\* [...new Set(list)]: a Set keeps the insertion order of first occurrences;
\* acc holds what has been inserted so far.
SetSpread(list, acc) ==
    IF list = <<>> THEN acc
    ELSE SetSpread(Tail(list),
                   IF InSeq(Head(list), acc) THEN acc ELSE Append(acc, Head(list)))

\* Variant of the normalization that lower-cases and trims but keeps
\* duplicates (the Set dropped).
NormalizeTags_KeepDuplicates(tags) ==
    [i \in 1..Len(tags) |-> Trim(ToLowerCase(tags[i]))]

\* [...new Set(this.tags.map(tag => tag.toLowerCase().trim()))]
NormalizeTags(tags) ==
    SetSpread([i \in 1..Len(tags) |-> Trim(ToLowerCase(tags[i]))], <<>>)

\* JavaScript truthiness of a number-or-null field
Truthy(n) == n # Null /\ n # 0

\* MediaSchema.pre('save'): the document as the hook leaves it and the error
\* it passes to next(), if any.
MediaPreSave(d) ==
    LET d1 == IF Len(d.tags) > 0 THEN SetPath(d, "tags", NormalizeTags(d.tags)) ELSE d
    IN IF d1.mediaType = "image" /\ Truthy(d1.width) /\ d1.width <= 0
       THEN [err |-> "WidthError", doc |-> d1]
       ELSE IF d1.mediaType = "image" /\ Truthy(d1.height) /\ d1.height <= 0
       THEN [err |-> "HeightError", doc |-> d1]
       ELSE [err |-> "ok", doc |-> d1]

MediaSetPaths == {"views", "downloads", "shares", "isActive", "deletedBy",
                  "deletedAt", "tags", "mediaType", "width", "height"}

\* document.save() of a Media document: pre hook, then $set of the modified
\* paths and the reset of the modification marks.
MediaSaveResult(d, st) ==
    LET r == MediaPreSave(d)
    IN IF r.err # "ok"
       THEN [outcome |-> r.err, doc |-> r.doc, store |-> st]
       ELSE [outcome |-> "ok", doc |-> ResetModified(r.doc),
             store |-> ApplySet(st, r.doc, r.doc.modified \cap MediaSetPaths)]

\* A media record as created: schema defaults plus the caller's values.
NewMedia(tags, mediaType, width, height) ==
    [views |-> 0, downloads |-> 0, shares |-> 0, isActive |-> TRUE,
     deletedBy |-> Null, deletedAt |-> Null, tags |-> tags,
     mediaType |-> mediaType, width |-> width, height |-> height]

\* Media.findById()
MediaLoaded(st) ==
    [views |-> st.views, downloads |-> st.downloads, shares |-> st.shares,
     isActive |-> st.isActive, deletedBy |-> st.deletedBy,
     deletedAt |-> st.deletedAt, tags |-> st.tags, mediaType |-> st.mediaType,
     width |-> st.width, height |-> st.height, modified |-> {}]

MediaSaveAs(c, d, op) ==
    LET r == MediaSaveResult(d, mediaStore)
    IN /\ mediaDoc' = [mediaDoc EXCEPT ![c] = r.doc]
       /\ mediaStore' = r.store
       /\ mediaRes' = [op |-> op, by |-> c, outcome |-> r.outcome]

MediaLoad(c) ==
    /\ mediaDoc' = [mediaDoc EXCEPT ![c] = MediaLoaded(mediaStore)]
    /\ mediaRes' = [op |-> "load", by |-> c, outcome |-> "ok"]
    /\ UNCHANGED <<now, mediaStore, mediaCalls, nonMediaVars>>

\* The caller assigns a field of its copy.
MediaSetField(c, path, val) ==
    /\ mediaDoc' = [mediaDoc EXCEPT ![c] = SetPath(@, path, val)]
    /\ mediaRes' = [op |-> "set", by |-> c, outcome |-> "ok"]
    /\ UNCHANGED <<now, mediaStore, mediaCalls, nonMediaVars>>

\* media.save() called directly
MediaSave(c) ==
    /\ MediaSaveAs(c, mediaDoc[c], "save")
    /\ UNCHANGED <<now, mediaCalls, nonMediaVars>>

TotalCalls == mediaCalls.views + mediaCalls.downloads + mediaCalls.shares

\* this.analytics.<counter> += 1; return this.save()
IncrementCounter(c, counter, op) ==
    /\ TotalCalls < MaxViews
    /\ MediaSaveAs(c, SetPath(mediaDoc[c], counter, mediaDoc[c][counter] + 1), op)
    /\ mediaCalls' = [mediaCalls EXCEPT ![counter] = @ + 1]
    /\ UNCHANGED <<now, nonMediaVars>>

\* MediaSchema.methods.incrementViews
IncrementViews(c) == IncrementCounter(c, "views", "incrementViews")

\* MediaSchema.methods.incrementDownloads
IncrementDownloads(c) == IncrementCounter(c, "downloads", "incrementDownloads")

\* MediaSchema.methods.incrementShares
IncrementShares(c) == IncrementCounter(c, "shares", "incrementShares")

\* MediaSchema.methods.softDelete
SoftDelete(c, userId) ==
    /\ MediaSaveAs(c,
          SetPath(SetPath(SetPath(mediaDoc[c], "isActive", FALSE),
                          "deletedBy", userId), "deletedAt", now),
          "softDelete")
    /\ UNCHANGED <<now, mediaCalls, nonMediaVars>>

\* MediaSchema.methods.restore
Restore(c) ==
    /\ MediaSaveAs(c,
          SetPath(SetPath(SetPath(mediaDoc[c], "isActive", TRUE),
                          "deletedBy", Null), "deletedAt", Null),
          "restore")
    /\ UNCHANGED <<now, mediaCalls, nonMediaVars>>

MediaInit(tags, mediaType, width, height) ==
    /\ mediaStore = NewMedia(tags, mediaType, width, height)
    /\ mediaDoc = [c \in Callers |-> MediaLoaded(mediaStore)]
    /\ mediaRes = [op |-> "none", by |-> 0, outcome |-> "none"]
    /\ mediaCalls = [views |-> 0, downloads |-> 0, shares |-> 0]

----------------------------------------------------------------------------
(* Media: static queries over the collection *)

MediaIds == 1..2

EmptyFilter == [k \in {} |-> TRUE]

\* { ...base, ...filter }: a key of the spread filter replaces the key
\* written before it.
SpreadFilter(base, filter) ==
    [k \in (DOMAIN base) \cup (DOMAIN filter) |->
        IF k \in DOMAIN filter THEN filter[k] ELSE base[k]]

\* { $regex: query, $options: 'i' }: case-insensitive containment
RegexMatch(text, query) ==
    LET t == ToLowerCase(text)
        q == ToLowerCase(query)
    IN \E i \in 0..(Len(t) - Len(q)) : SubSeq(t, i + 1, i + Len(q)) = q

\* The $or of searchMedia: title, description or one of the tags matches.
TextMatch(m, query) ==
    \/ RegexMatch(m.title, query)
    \/ RegexMatch(m.description, query)
    \/ \E i \in 1..Len(m.tags) : RegexMatch(m.tags[i], query)

\* Whether document m satisfies query object q.
QueryMatches(m, q) ==
    /\ \A k \in (DOMAIN q) \ {"$or"} : m[k] = q[k]
    /\ "$or" \in DOMAIN q => TextMatch(m, q["$or"])

RECURSIVE SortByCreatedAtDesc(_)
\* .sort({ createdAt: -1 }) over a set of document ids
SortByCreatedAtDesc(ids) ==
    IF ids = {} THEN <<>>
    ELSE LET newest == CHOOSE i \in ids :
                          \A j \in ids : mediaColl[j].createdAt <= mediaColl[i].createdAt
         IN <<newest>> \o SortByCreatedAtDesc(ids \ {newest})

\* Model.find(q).sort({ createdAt: -1 })
Find(q) == SortByCreatedAtDesc({i \in MediaIds : QueryMatches(mediaColl[i], q)})

\* MediaSchema.statics.getByCategory
GetByCategory(category, filter) ==
    /\ queryRes' = [op |-> "getByCategory",
                    result |-> Find(SpreadFilter([category |-> category,
                                                  isActive |-> TRUE], filter))]
    /\ UNCHANGED <<mediaColl, nonQueryVars>>

\* MediaSchema.statics.getPublicMedia
GetPublicMedia(filter) ==
    /\ queryRes' = [op |-> "getPublicMedia",
                    result |-> Find(SpreadFilter([isPublic |-> TRUE, isActive |-> TRUE,
                                                  status |-> "approved"], filter))]
    /\ UNCHANGED <<mediaColl, nonQueryVars>>

\* MediaSchema.statics.searchMedia
SearchMedia(query, filter) ==
    /\ queryRes' = [op |-> "searchMedia",
                    result |-> Find(SpreadFilter([isActive |-> TRUE] @@ ("$or" :> query),
                                                 filter))]
    /\ UNCHANGED <<mediaColl, nonQueryVars>>

MediaTitles == <<  <<"a", "b">>, <<"A">>  >>

QueryFlags == [isActive : BOOLEAN, isPublic : BOOLEAN,
               status : {"approved", "pending"}, category : {"gallery", "other"}]

\* The collection: each document approved or pending, public or private,
\* active or soft-deleted, in one of two categories.
QueryInit ==
    /\ \E flags \in [MediaIds -> QueryFlags] :
          mediaColl = [i \in MediaIds |->
                         [isActive |-> flags[i].isActive, isPublic |-> flags[i].isPublic,
                          status |-> flags[i].status, category |-> flags[i].category,
                          title |-> MediaTitles[i], description |-> <<>>,
                          tags |-> << <<"b">> >>, createdAt |-> i]]
    /\ queryRes = [op |-> "none", result |-> <<>>]

QueryIdle ==
    /\ mediaColl = [i \in MediaIds |->
                      [isActive |-> TRUE, isPublic |-> TRUE, status |-> "approved",
                       category |-> "other", title |-> MediaTitles[i],
                       description |-> <<>>, tags |-> <<>>, createdAt |-> i]]
    /\ queryRes = [op |-> "none", result |-> <<>>]

----------------------------------------------------------------------------
(* Settings *)

ValidEmail == "info@clinic.com"
EmailInputs == {"", ValidEmail, "not-an-email"}
PhoneInputs == {"", "+90 555 000"}

PasswordMinLengthFloor == 6
ImageQualityMin == 1
ImageQualityMax == 100

\* The match pattern of contact.email, on the addresses the model uses.
EmailMatches(e) == e = ValidEmail

\* Schema validation run by save() before the pre('save') hook: both contact
\* fields are required, the email must match, the numbers have min/max.
SettingsValid(d) ==
    /\ d.email # ""
    /\ EmailMatches(d.email)
    /\ d.phone # ""
    /\ d.passwordMinLength >= PasswordMinLengthFloor
    /\ d.imageQuality >= ImageQualityMin
    /\ d.imageQuality <= ImageQualityMax

\* SettingsSchema.pre('save'): the error passed to next(), or "ok".
SettingsPreSave(d) ==
    IF d.email = "" /\ d.phone = "" THEN "ContactError"
    ELSE IF d.passwordMinLength < PasswordMinLengthFloor THEN "PasswordLengthError"
    ELSE IF d.imageQuality < ImageQualityMin \/ d.imageQuality > ImageQualityMax
    THEN "ImageQualityError"
    ELSE "ok"

\* Variant of settings.save() that checks the contact fields only.
SettingsSaveOutcome_ContactOnly(d) ==
    IF d.email = "" \/ ~EmailMatches(d.email) \/ d.phone = ""
    THEN "ValidationError" ELSE "ok"

\* settings.save()
SettingsSaveOutcome(d) ==
    IF ~SettingsValid(d) THEN "ValidationError" ELSE SettingsPreSave(d)

SettingsSet(path, val) ==
    /\ settingsDoc' = [settingsDoc EXCEPT ![path] = val]
    /\ settingsRes' = "set"
    /\ UNCHANGED <<settingsStore, nonSettingsVars>>

SettingsSave ==
    LET outcome == SettingsSaveOutcome(settingsDoc)
    IN /\ settingsRes' = outcome
       /\ settingsStore' = IF outcome = "ok"
                           THEN [saved |-> TRUE, doc |-> settingsDoc]
                           ELSE settingsStore
       /\ UNCHANGED <<settingsDoc, nonSettingsVars>>

\* new Settings({contact: {...}}): the schema defaults of the two numbers.
NewSettings(email, phone) ==
    [email |-> email, phone |-> phone, passwordMinLength |-> 8, imageQuality |-> 80]

SettingsInit ==
    /\ \E e \in EmailInputs, p \in PhoneInputs : settingsDoc = NewSettings(e, p)
    /\ settingsStore = [saved |-> FALSE, doc |-> NewSettings("", "")]
    /\ settingsRes = "none"

SettingsIdle ==
    /\ settingsDoc = NewSettings("", "")
    /\ settingsStore = [saved |-> FALSE, doc |-> NewSettings("", "")]
    /\ settingsRes = "none"

----------------------------------------------------------------------------
(* User *)

PasswordMinLength == 6
BcryptPrefix == "$2a$10$"
Salts == {"saltA", "saltB"}

PlainOld == <<"s", "e", "c", "r", "e", "t">>
PlainNew == <<"h", "u", "n", "t", "e", "r", "2">>
PlainShort == <<"a", "b", "c">>
PasswordInputs == {PlainOld, PlainNew, PlainShort}

\* bcrypt.hash(data, salt): the cost-10 header, the salt, and a digest that
\* is one-to-one in (salt, data).
BcryptHash(data, salt) == <<BcryptPrefix, salt>> \o data

\* bcrypt.compare(candidate, hash): hashes the candidate with the salt read
\* from the hash and compares.
BcryptCompare(candidate, hash) ==
    /\ Len(hash) >= 2
    /\ hash[1] = BcryptPrefix
    /\ hash = BcryptHash(candidate, hash[2])

\* Schema validation of save(): a modified password needs its minimum length.
UserValid(d) == IsModified(d, "password") => Len(d.password) >= PasswordMinLength

\* Variant of the pre('save') hook that hashes on every save (the
\* isModified('password') test dropped).
UserPreSave_AlwaysHash(d, salt) ==
    [d EXCEPT !.password = BcryptHash(d.password, salt),
              !.modified = @ \cup {"password"}]

\* userSchema.pre('save')
UserPreSave(d, salt) ==
    IF ~IsModified(d, "password") THEN d
    ELSE [d EXCEPT !.password = BcryptHash(d.password, salt)]

\* userSchema.methods.comparePassword
ComparePassword(d, enteredPassword) == BcryptCompare(enteredPassword, d.password)

UserSetPaths == {"password", "bio", "verificationToken", "passwordResetToken",
                 "passwordResetExpires"}

\* A string path that holds no value (undefined).
Unset == <<>>

\* The paths declared select: false, plus the always-selected bio.
SensitiveKeys == {"password", "verificationToken", "passwordResetToken",
                  "passwordResetExpires"}

\* A user record with the schema defaults around a password hash.
NewUser(hash, verification) ==
    [password |-> hash, bio |-> <<>>, verificationToken |-> verification,
     passwordResetToken |-> Unset, passwordResetExpires |-> Null]

\* A query result: the paths of selected are read from the store, every
\* other select: false path is left undefined on the document.
UserLoaded(st, selected) ==
    [password |-> IF "password" \in selected THEN st.password ELSE Unset,
     bio |-> st.bio,
     verificationToken |-> IF "verificationToken" \in selected
                           THEN st.verificationToken ELSE Unset,
     passwordResetToken |-> IF "passwordResetToken" \in selected
                            THEN st.passwordResetToken ELSE Unset,
     passwordResetExpires |-> IF "passwordResetExpires" \in selected
                              THEN st.passwordResetExpires ELSE Null,
     modified |-> {}]

UserSetPassword(p) ==
    /\ userDoc' = SetPath(userDoc, "password", p)
    /\ userRes' = [op |-> "set", outcome |-> "ok"]
    /\ UNCHANGED <<userStore, userPlain, userRet, nonUserVars>>

UserSetBio(b) ==
    /\ userDoc' = SetPath(userDoc, "bio", b)
    /\ userRes' = [op |-> "set", outcome |-> "ok"]
    /\ UNCHANGED <<userStore, userPlain, userRet, nonUserVars>>

\* user.save(): validation, pre hook with a fresh salt, write, reset.
UserSave ==
    IF ~UserValid(userDoc)
    THEN /\ userRes' = [op |-> "save", outcome |-> "ValidationError"]
         /\ UNCHANGED <<userDoc, userStore, userPlain, userRet, nonUserVars>>
    ELSE \E salt \in Salts :
           LET d1 == UserPreSave(userDoc, salt)
           IN /\ userStore' = ApplySet(userStore, d1, d1.modified \cap UserSetPaths)
              /\ userDoc' = ResetModified(d1)
              /\ userPlain' = IF IsModified(userDoc, "password")
                              THEN userDoc.password ELSE userPlain
              /\ userRes' = [op |-> "save", outcome |-> "ok"]
              /\ UNCHANGED <<userRet, nonUserVars>>

\* User.findById().select('+password')
UserLoad ==
    /\ userDoc' = UserLoaded(userStore, {"password"})
    /\ userRes' = [op |-> "load", outcome |-> "ok"]
    /\ UNCHANGED <<userStore, userPlain, userRet, nonUserVars>>

\* A call of user.comparePassword(candidate)
UserComparePassword(candidate) ==
    /\ userRes' = [op |-> "comparePassword",
                   outcome |-> IF ComparePassword(userDoc, candidate)
                               THEN "match" ELSE "mismatch"]
    /\ UNCHANGED <<userDoc, userStore, userPlain, userRet, nonUserVars>>

\* A query for the user with the given select: false paths selected.
UserLoadSelect(selected) ==
    /\ userDoc' = UserLoaded(userStore, selected)
    /\ userRes' = [op |-> "load", outcome |-> "ok"]
    /\ UNCHANGED <<userStore, userPlain, userRet, nonUserVars>>

\* Whether the document holds a value at a select: false path.
Present(d, k) == IF k = "passwordResetExpires" THEN d[k] # Null ELSE d[k] # Unset

\* this.toObject(): a plain object of the paths the document holds.
ToObject(d) ==
    [k \in {"bio"} \cup {x \in SensitiveKeys : Present(d, x)} |-> d[k]]

\* delete object[key]
Delete(o, key) == [k \in DOMAIN o \ {key} |-> o[k]]

\* Variant of getPublicProfile without its last delete.
PublicProfile_KeepsExpires(d) ==
    Delete(Delete(Delete(ToObject(d), "password"), "verificationToken"),
           "passwordResetToken")

\* The object userSchema.methods.getPublicProfile returns.
PublicProfile(d) ==
    Delete(Delete(Delete(Delete(ToObject(d), "password"), "verificationToken"),
                  "passwordResetToken"), "passwordResetExpires")

\* A call of user.getPublicProfile()
GetPublicProfile ==
    /\ userRet' = PublicProfile(userDoc)
    /\ userRes' = [op |-> "getPublicProfile", outcome |-> "ok"]
    /\ UNCHANGED <<userDoc, userStore, userPlain, nonUserVars>>

\* crypto.randomBytes(32).toString('hex'): the values the generator may give.
ResetTokens == {<<"4", "f">>, <<"9", "c">>}

\* The value a verification e-mail flow left on the record.
VerifyToken == <<"7", "e">>

\* crypto.createHash('sha256').update(data).digest('hex'): a digest that is
\* one-to-one in data and differs from it.
Sha256Hex(data) == <<"sha256">> \o data

\* 30 * 60 * 1000 milliseconds
ResetTokenTtl == 30 * 60 * 1000

\* Variant of generatePasswordResetToken that keeps the plaintext on the
\* record.
GeneratePasswordResetToken_StorePlain(token) ==
    /\ userDoc' = SetPath(SetPath(userDoc, "passwordResetToken", token),
                          "passwordResetExpires", now + ResetTokenTtl)
    /\ userRet' = token
    /\ userRes' = [op |-> "generatePasswordResetToken", outcome |-> "ok"]
    /\ UNCHANGED <<userStore, userPlain, nonUserVars>>

\* userSchema.methods.generatePasswordResetToken, token being the random
\* value drawn; the method does not save.
GeneratePasswordResetToken(token) ==
    /\ userDoc' = SetPath(SetPath(userDoc, "passwordResetToken", Sha256Hex(token)),
                          "passwordResetExpires", now + ResetTokenTtl)
    /\ userRet' = token
    /\ userRes' = [op |-> "generatePasswordResetToken", outcome |-> "ok"]
    /\ UNCHANGED <<userStore, userPlain, nonUserVars>>

\* A user registered with PlainOld and saved once.
UserInit ==
    /\ \E salt \in Salts :
          userStore = NewUser(BcryptHash(PlainOld, salt), Unset)
    /\ userDoc = UserLoaded(userStore, {"password"})
    /\ userPlain = PlainOld
    /\ userRes = [op |-> "none", outcome |-> "none"]
    /\ userRet = Null

UserIdle ==
    /\ userStore = NewUser(BcryptHash(PlainOld, "saltA"), Unset)
    /\ userDoc = UserLoaded(userStore, {"password"})
    /\ userPlain = PlainOld
    /\ userRes = [op |-> "none", outcome |-> "none"]
    /\ userRet = Null

MediaIdle == MediaInit(<<>>, "image", Null, Null)

PageIdle ==
    /\ pageStore = NewPage(TRUE, <<>>)
    /\ pageDoc = [e \in Editors |-> PageLoaded(pageStore)]
    /\ pageRes = [op |-> "none", arg |-> 0, outcome |-> "none"]
    /\ pvCalls = 0

----------------------------------------------------------------------------
(* Database connection *)

MaxConnectCalls == 2    \* cap on the number of connectDB calls of one process

\* undefined: an environment variable that is not set, an argument not given
NoValue == "<undefined>"

MongoUri == "mongodb://db.example/cms"
DevDefaultUri == "mongodb://localhost:27017/tamamlayici-saglik-cms"
TestDefaultUri == "mongodb://localhost:27017/tamamlayici-saglik-cms-test"

EnvValues == {NoValue, "", MongoUri}
ConfiguredEnvironments == {"development", "production", "test"}
EnvironmentInputs == {NoValue, "development", "production", "test", "staging"}

\* JavaScript a || b on strings
JsOr(a, b) == IF a = NoValue \/ a = "" THEN b ELSE a

\* mongoDBConfig[environment].url, as evaluated when the module is loaded.
ConfigUrl(env, environment) ==
    CASE environment = "development" -> JsOr(env.MONGODB_URI, DevDefaultUri)
      [] environment = "production" -> env.MONGODB_URI
      [] environment = "test" -> JsOr(env.MONGODB_TEST_URI, TestDefaultUri)

\* Whether connectDB gets as far as mongoose.connect: the environment has a
\* config entry and its url is truthy.
HasUrl(env, environment) ==
    /\ environment \in ConfiguredEnvironments
    /\ ConfigUrl(env, environment) # NoValue
    /\ ConfigUrl(env, environment) # ""

\* The default parameter value environment = 'development'.
EffectiveEnvironment(environment) ==
    IF environment = NoValue THEN "development" ELSE environment

\* process.exit(1)
Exited(proc) == [proc EXCEPT !.alive = FALSE, !.exitCode = 1, !.connected = FALSE]

\* Variant of connectDB that tries mongoose.connect a second time when the
\* first attempt fails.
ConnectDB_RetryOnce(environment, connectOk) ==
    LET e == EffectiveEnvironment(environment)
        called == [dbProc EXCEPT !.calls = @ + 1]
    IN /\ dbProc.alive
       /\ dbProc.calls < MaxConnectCalls
       /\ IF ~HasUrl(dbEnv, e)
          THEN /\ dbProc' = Exited(called)
               /\ dbRes' = [op |-> "connectDB", environment |-> e,
                            attempts |-> 0, returned |-> "none"]
          ELSE /\ dbProc' = [called EXCEPT !.connected = TRUE, !.listeners = @ + 2]
               /\ dbRes' = [op |-> "connectDB", environment |-> e,
                            attempts |-> IF connectOk THEN 1 ELSE 2,
                            returned |-> "connection"]
       /\ UNCHANGED <<dbEnv, nonDbVars>>

\* connectDB(environment); connectOk is whether mongoose.connect resolves.
ConnectDB(environment, connectOk) ==
    LET e == EffectiveEnvironment(environment)
        called == [dbProc EXCEPT !.calls = @ + 1]
    IN /\ dbProc.alive
       /\ dbProc.calls < MaxConnectCalls
       /\ IF ~HasUrl(dbEnv, e)
          THEN /\ dbProc' = Exited(called)
               /\ dbRes' = [op |-> "connectDB", environment |-> e,
                            attempts |-> 0, returned |-> "none"]
          ELSE IF ~connectOk
          THEN /\ dbProc' = Exited(called)
               /\ dbRes' = [op |-> "connectDB", environment |-> e,
                            attempts |-> 1, returned |-> "none"]
          ELSE /\ dbProc' = [called EXCEPT !.connected = TRUE, !.listeners = @ + 2]
               /\ dbRes' = [op |-> "connectDB", environment |-> e,
                            attempts |-> 1, returned |-> "connection"]
       /\ UNCHANGED <<dbEnv, nonDbVars>>

\* disconnectDB(); disconnectOk is whether mongoose.disconnect resolves.
DisconnectDB(disconnectOk) ==
    /\ dbProc.alive
    /\ dbProc' = IF disconnectOk THEN [dbProc EXCEPT !.connected = FALSE]
                 ELSE Exited(dbProc)
    /\ dbRes' = [op |-> "disconnectDB", environment |-> NoValue,
                 attempts |-> 0, returned |-> "none"]
    /\ UNCHANGED <<dbEnv, nonDbVars>>

\* A process that has loaded the module and not called it yet.
NewProcess == [alive |-> TRUE, exitCode |-> Null, connected |-> FALSE,
               listeners |-> 0, calls |-> 0]

DbInit ==
    /\ dbEnv \in [MONGODB_URI : EnvValues, MONGODB_TEST_URI : EnvValues]
    /\ dbProc = NewProcess
    /\ dbRes = [op |-> "none", environment |-> NoValue, attempts |-> 0,
                returned |-> "none"]

DbIdle ==
    /\ dbEnv = [MONGODB_URI |-> MongoUri, MONGODB_TEST_URI |-> NoValue]
    /\ dbProc = NewProcess
    /\ dbRes = [op |-> "none", environment |-> NoValue, attempts |-> 0,
                returned |-> "none"]

----------------------------------------------------------------------------
(* SEO *)

Slash == "/"

\* The String setters of pageSlug (trim, lowercase) and canonicalUrl (trim).
SlugSetter(s) == ToLowerCase(Trim(s))
CanonicalUrlSetter(s) == Trim(s)

\* Variant of the virtual that ignores canonicalUrl.
FullCanonicalUrl_SlugOnly(d) == <<Slash>> \o d.pageSlug

\* seoSchema.virtual('fullCanonicalUrl'): this.canonicalUrl || `/${this.pageSlug}`;
\* an undefined or empty canonicalUrl is falsy.
FullCanonicalUrl(d) ==
    IF Len(d.canonicalUrl) > 0 THEN d.canonicalUrl ELSE <<Slash>> \o d.pageSlug

SeoSetSlug(s) ==
    /\ seoDoc' = [seoDoc EXCEPT !.pageSlug = SlugSetter(s)]
    /\ seoRes' = [op |-> "set", value |-> <<>>]
    /\ UNCHANGED nonSeoVars

SeoSetCanonicalUrl(u) ==
    /\ seoDoc' = [seoDoc EXCEPT !.canonicalUrl = CanonicalUrlSetter(u)]
    /\ seoRes' = [op |-> "set", value |-> <<>>]
    /\ UNCHANGED nonSeoVars

\* seo.save(): pageSlug is required; seoSchema.pre('save') stamps updatedAt.
SeoSave ==
    /\ IF Len(seoDoc.pageSlug) = 0
       THEN /\ seoRes' = [op |-> "ValidationError", value |-> <<>>]
            /\ UNCHANGED seoDoc
       ELSE /\ seoDoc' = [seoDoc EXCEPT !.updatedAt = now]
            /\ seoRes' = [op |-> "save", value |-> <<>>]
    /\ UNCHANGED nonSeoVars

\* A read of seo.fullCanonicalUrl
ReadFullCanonicalUrl ==
    /\ seoRes' = [op |-> "fullCanonicalUrl", value |-> FullCanonicalUrl(seoDoc)]
    /\ UNCHANGED <<seoDoc, nonSeoVars>>

NewSeo(slug, url) ==
    [pageSlug |-> SlugSetter(slug), canonicalUrl |-> CanonicalUrlSetter(url),
     updatedAt |-> 1]

SeoIdle ==
    /\ seoDoc = NewSeo(<<LowerA>>, <<>>)
    /\ seoRes = [op |-> "none", value |-> <<>>]

----------------------------------------------------------------------------
(* Specifications *)

vars == <<now, pageVars, mediaVars, queryVars, settingsVars, userVars, dbVars, seoVars>>

Contents == {ContentA, ContentB}
StatusInputs == PageStatuses \cup {"bogus"}
VersionInputs == 1..2
AnalyticsInputs == {[uniqueVisitors |-> 1]}
RelatedInputs == {"page-2"}

\* One editor driving the content and status workflow of the page.
PageInitAll ==
    /\ now = 1
    /\ PageInit
    /\ MediaIdle /\ QueryIdle /\ SettingsIdle /\ UserIdle /\ DbIdle /\ SeoIdle

PageNext ==
    \/ \E c \in Contents : PageSetField(1, "content", c)
    \/ \E s \in StatusInputs : PageSetField(1, "status", s)
    \/ PageSave(1)
    \/ Publish(1)
    \/ Archive(1)
    \/ \E vn \in VersionInputs : Revert(1, vn)
    \/ PageLoad(1)
    \/ Tick

SpecPage == PageInitAll /\ [][PageNext]_vars

\* One editor rewriting title, excerpt and the two seo fields of a page that
\* was created with TitleA and saved once.
ExcerptShort == <<4, 4>>
MetaTitleGiven == <<5>>
MetaTitleTooLong == [i \in 1..(MetaTitleMax + 1) |-> 5]
MetaDescriptionGiven == <<6>>

TitleInputs == {<<>>, TitleA, TitleLong}
ExcerptInputs == {<<>>, ExcerptShort, ExcerptLong}
MetaTitleInputs == {<<>>, MetaTitleGiven, MetaTitleTooLong}
MetaDescriptionInputs == {<<>>, MetaDescriptionGiven}

PageMetaInit ==
    /\ now = 1
    /\ pageStore = [NewPage(TRUE, <<>>) EXCEPT
                       !.metaTitle = Substring(TitleA, MetaTitleMax)]
    /\ pageDoc = [e \in Editors |-> PageLoaded(pageStore)]
    /\ pageRes = [op |-> "none", arg |-> 0, outcome |-> "none"]
    /\ pvCalls = 0
    /\ MediaIdle /\ QueryIdle /\ SettingsIdle /\ UserIdle /\ DbIdle /\ SeoIdle

PageMetaNext ==
    \/ \E x \in TitleInputs : PageSetField(1, "title", x)
    \/ \E x \in ExcerptInputs : PageSetField(1, "excerpt", x)
    \/ \E x \in MetaTitleInputs : PageSetField(1, "metaTitle", x)
    \/ \E x \in MetaDescriptionInputs : PageSetField(1, "metaDescription", x)
    \/ PageSave(1)
    \/ Tick

SpecPageMeta == PageMetaInit /\ [][PageMetaNext]_vars

\* One editor whose process may stop between the primary write of a save and
\* the post('save') hook, and reloads the page afterwards.
PageCrashNext ==
    \/ ~SaveInFlight /\ \E c \in Contents : PageSetField(1, "content", c)
    \/ ~SaveInFlight /\ \E t \in {TitleA, TitleB} : PageSetField(1, "title", t)
    \/ PageSaveBegin(1)
    \/ PageSaveFinish(1)
    \/ PageCrash(1)
    \/ ~SaveInFlight /\ PageLoad(1)
    \/ Tick

SpecPageCrash == PageInitAll /\ [][PageCrashNext]_vars

\* Two editors, each holding a copy of the page, editing title and content,
\* saving, reverting and reloading in any order.
PageEditorsNext ==
    \/ \E e \in Editors, t \in {TitleA, TitleB} : PageSetField(e, "title", t)
    \/ \E e \in Editors, c \in Contents : PageSetField(e, "content", c)
    \/ \E e \in Editors : PageSave(e)
    \/ \E e \in Editors : Revert(e, 1)
    \/ \E e \in Editors : PageLoad(e)

SpecPageEditors == PageInitAll /\ [][PageEditorsNext]_vars

\* One editor working on a versioned page that carries either no history
\* or two snapshots: content edits, saves, every instance method, reverts to
\* present and absent versions, reloads.
SeededTwo ==
    << [versionNumber |-> 1, title |-> TitleB, content |-> ContentB, createdAt |-> 1],
       [versionNumber |-> 2, title |-> TitleA, content |-> ContentB, createdAt |-> 1] >>

PageHistoryInit ==
    /\ now = 1
    /\ \E h \in {<<>>, SeededTwo} : pageStore = NewPage(TRUE, h)
    /\ pageDoc = [e \in Editors |-> PageLoaded(pageStore)]
    /\ pageRes = [op |-> "none", arg |-> 0, outcome |-> "none"]
    /\ pvCalls = 0
    /\ MediaIdle /\ QueryIdle /\ SettingsIdle /\ UserIdle /\ DbIdle /\ SeoIdle

PageHistoryNext ==
    \/ \E c \in Contents : PageSetField(1, "content", c)
    \/ PageSave(1)
    \/ Publish(1)
    \/ Archive(1)
    \/ \E vn \in 1..3 : Revert(1, vn)
    \/ \E data \in AnalyticsInputs : UpdateAnalytics(1, data)
    \/ \E pid \in RelatedInputs : AddRelatedPage(1, pid)
    \/ \E b \in BOOLEAN : ToggleComments(1, b)
    \/ PageLoad(1)

SpecPageHistory == PageHistoryInit /\ [][PageHistoryNext]_vars

\* Two editors, each on a copy of a new draft page, changing its status by
\* assignment and save, by publish() and by archive(), and reloading.
PagePublishInit ==
    /\ now = 1
    /\ pageStore = NewPage(TRUE, <<>>)
    /\ pageDoc = [e \in Editors |-> PageLoaded(pageStore)]
    /\ pageRes = [op |-> "none", arg |-> 0, outcome |-> "none"]
    /\ pvCalls = 0
    /\ MediaIdle /\ QueryIdle /\ SettingsIdle /\ UserIdle /\ DbIdle /\ SeoIdle

PagePublishNext ==
    \/ \E e \in Editors, s \in StatusInputs : PageSetField(e, "status", s)
    \/ \E e \in Editors : PageSave(e)
    \/ \E e \in Editors : Publish(e)
    \/ \E e \in Editors : Archive(e)
    \/ \E e \in Editors : PageLoad(e)
    \/ Tick

SpecPagePublish == PagePublishInit /\ [][PagePublishNext]_vars

\* One editor calling every instance method of the page.
PageOpsNext ==
    \/ \E s \in {"published", "bogus"} : PageSetField(1, "status", s)
    \/ PageSave(1)
    \/ Publish(1)
    \/ Archive(1)
    \/ Revert(1, 1)
    \/ \E data \in AnalyticsInputs : UpdateAnalytics(1, data)
    \/ \E pid \in RelatedInputs : AddRelatedPage(1, pid)
    \/ \E b \in BOOLEAN : ToggleComments(1, b)
    \/ Tick

\* The page starts with the schema default enableVersioning = true.
PageOpsInit == PageInitAll /\ pageStore.enableVersioning

SpecPageOps == PageOpsInit /\ [][PageOpsNext]_vars

\* Two editors saving their own copies of the page while readers count views.
PageViewsNext ==
    \/ \E e \in Editors, c \in Contents : PageSetField(e, "content", c)
    \/ \E e \in Editors : PageSave(e)
    \/ \E e \in Editors : PageLoad(e)
    \/ \E pid \in PageIds : IncrementPageView(pid)

SpecPageViews == PageInitAll /\ [][PageViewsNext]_vars

\* Two callers holding copies of one media record: counters, soft delete.
UserIdInputs == {Null, 7}

MediaInitAll ==
    /\ now = 1
    /\ MediaInit(<< <<LowerA>> >>, "image", 5, 5)
    /\ PageIdle /\ QueryIdle /\ SettingsIdle /\ UserIdle /\ DbIdle /\ SeoIdle

MediaTick ==
    /\ now < MaxTime
    /\ now' = now + 1
    /\ UNCHANGED <<mediaVars, nonMediaVars>>

MediaNext ==
    \/ \E c \in Callers : MediaLoad(c)
    \/ \E c \in Callers : IncrementViews(c)
    \/ \E c \in Callers : IncrementDownloads(c)
    \/ \E c \in Callers : IncrementShares(c)
    \/ \E c \in Callers, u \in UserIdInputs : SoftDelete(c, u)
    \/ \E c \in Callers : Restore(c)
    \/ MediaTick

SpecMedia == MediaInitAll /\ [][MediaNext]_vars

\* One caller setting the image dimensions of an image or a video record
\* and saving.
DimensionInputs == {Null, -1, 0, 640}
MediaTypeInputs == {"image", "video"}

MediaDimsInit ==
    /\ now = 1
    /\ \E mt \in MediaTypeInputs : MediaInit(<<>>, mt, Null, Null)
    /\ PageIdle /\ QueryIdle /\ SettingsIdle /\ UserIdle /\ DbIdle /\ SeoIdle

MediaDimsNext ==
    \/ \E w \in DimensionInputs : MediaSetField(1, "width", w)
    \/ \E h \in DimensionInputs : MediaSetField(1, "height", h)
    \/ MediaSave(1)
    \/ MediaLoad(1)

SpecMediaDims == MediaDimsInit /\ [][MediaDimsNext]_vars

\* One media document saved with every tag list of the bounded alphabet.
MaxTagLen == 1
MaxTags == 3

SeqsUpTo(S, n) == UNION {[1..k -> S] : k \in 0..n}
TagLists == SeqsUpTo(SeqsUpTo(Chars, MaxTagLen), MaxTags)

MediaTagsInit ==
    /\ now = 1
    /\ mediaStore = NewMedia(<<>>, "image", 5, 5)
    /\ \E tags \in TagLists :
          mediaDoc = [c \in Callers |->
                        IF c = 1 THEN SetPath(MediaLoaded(mediaStore), "tags", tags)
                        ELSE MediaLoaded(mediaStore)]
    /\ mediaRes = [op |-> "none", by |-> 0, outcome |-> "none"]
    /\ mediaCalls = [views |-> 0, downloads |-> 0, shares |-> 0]
    /\ PageIdle /\ QueryIdle /\ SettingsIdle /\ UserIdle /\ DbIdle /\ SeoIdle

MediaTagsNext == MediaSave(1)

SpecMediaTags == MediaTagsInit /\ [][MediaTagsNext]_vars

\* The static queries with every caller-supplied filter of the input set.
FilterInputs == {EmptyFilter, [isActive |-> FALSE], [isActive |-> TRUE],
                 [status |-> "pending"], [isPublic |-> FALSE]}
CategoryInputs == {"gallery", "other"}
SearchInputs == {<<"a">>, <<"B">>}

MediaQueryInit ==
    /\ now = 1
    /\ QueryInit
    /\ PageIdle /\ MediaIdle /\ SettingsIdle /\ UserIdle /\ DbIdle /\ SeoIdle

MediaQueryNext ==
    \/ \E cat \in CategoryInputs, f \in FilterInputs : GetByCategory(cat, f)
    \/ \E f \in FilterInputs : GetPublicMedia(f)
    \/ \E q \in SearchInputs, f \in FilterInputs : SearchMedia(q, f)

SpecMediaQuery == MediaQueryInit /\ [][MediaQueryNext]_vars

\* The settings document edited and saved.
SettingsInitAll ==
    /\ now = 1
    /\ SettingsInit
    /\ PageIdle /\ MediaIdle /\ QueryIdle /\ UserIdle /\ DbIdle /\ SeoIdle

SettingsNext ==
    \/ \E e \in EmailInputs : SettingsSet("email", e)
    \/ \E ph \in PhoneInputs : SettingsSet("phone", ph)
    \/ \E n \in {5, 6, 8} : SettingsSet("passwordMinLength", n)
    \/ \E q \in {0, 1, 80, 100, 101} : SettingsSet("imageQuality", q)
    \/ SettingsSave

SpecSettings == SettingsInitAll /\ [][SettingsNext]_vars

\* One user changing password and profile, saving and logging in.
BioInputs == {<<>>, <<"h", "i">>}

UserInitAll ==
    /\ now = 1
    /\ UserInit
    /\ PageIdle /\ MediaIdle /\ QueryIdle /\ SettingsIdle /\ DbIdle /\ SeoIdle

UserNext ==
    \/ \E pw \in PasswordInputs : UserSetPassword(pw)
    \/ \E b \in BioInputs : UserSetBio(b)
    \/ UserSave
    \/ UserLoad
    \/ \E pw \in PasswordInputs : UserComparePassword(pw)

SpecUser == UserInitAll /\ [][UserNext]_vars

\* One user document queried with different selections, asked for its public
\* profile and for password reset tokens, and saved.
SelectInputs == {{}, {"password"}, SensitiveKeys}

UserAccountInit ==
    /\ now = 1
    /\ \E v \in {Unset, VerifyToken} :
          userStore = NewUser(BcryptHash(PlainOld, "saltA"), v)
    /\ \E sel \in SelectInputs : userDoc = UserLoaded(userStore, sel)
    /\ userPlain = PlainOld
    /\ userRes = [op |-> "none", outcome |-> "none"]
    /\ userRet = Null
    /\ PageIdle /\ MediaIdle /\ QueryIdle /\ SettingsIdle /\ DbIdle /\ SeoIdle

UserAccountNext ==
    \/ \E sel \in SelectInputs : UserLoadSelect(sel)
    \/ GetPublicProfile
    \/ \E t \in ResetTokens : GeneratePasswordResetToken(t)
    \/ UserSave
    \/ Tick

SpecUserAccount == UserAccountInit /\ [][UserAccountNext]_vars

\* One SEO document whose slug and canonical URL are rewritten, saved and
\* read.
SlugInputs == {<<>>, <<LowerA>>, <<UpperA, LowerB>>, <<Blank, LowerB>>, <<LowerB, LowerA>>}
CanonicalUrlInputs == {<<>>, <<Blank>>, <<Slash, LowerB>>, <<UpperA, Slash, LowerA>>}

SeoInitAll ==
    /\ now = 1
    /\ \E s \in SlugInputs \ {<<>>}, u \in CanonicalUrlInputs : seoDoc = NewSeo(s, u)
    /\ seoRes = [op |-> "none", value |-> <<>>]
    /\ PageIdle /\ MediaIdle /\ QueryIdle /\ SettingsIdle /\ UserIdle /\ DbIdle

SeoNext ==
    \/ \E s \in SlugInputs : SeoSetSlug(s)
    \/ \E u \in CanonicalUrlInputs : SeoSetCanonicalUrl(u)
    \/ SeoSave
    \/ ReadFullCanonicalUrl
    \/ Tick

SpecSeo == SeoInitAll /\ [][SeoNext]_vars

\* One process calling connectDB / disconnectDB under every environment.
DbInitAll ==
    /\ now = 1
    /\ DbInit
    /\ PageIdle /\ MediaIdle /\ QueryIdle /\ SettingsIdle /\ UserIdle /\ SeoIdle

DbNext ==
    \/ \E environment \in EnvironmentInputs, ok \in BOOLEAN : ConnectDB(environment, ok)
    \/ \E ok \in BOOLEAN : DisconnectDB(ok)

SpecDb == DbInitAll /\ [][DbNext]_vars

----------------------------------------------------------------------------
(* Page: properties *)

\* A step of editor e that issues save(), by whichever method.
PageDirectSave(e) == PageSave(e)
PageMethodSave(e) ==
    \/ Archive(e)
    \/ \E vn \in VersionInputs : Revert(e, vn)
    \/ \E data \in AnalyticsInputs : UpdateAnalytics(e, data)
    \/ \E pid \in RelatedInputs : AddRelatedPage(e, pid)
    \/ \E b \in BOOLEAN : ToggleComments(e, b)

\* C1: with versioning enabled, one successful save() in which content was
\* modified appends exactly one versionHistory entry numbered with the
\* pre-save currentVersion and raises currentVersion by one; a save in which
\* content was not modified appends nothing and keeps currentVersion.
C1_SaveAppendsVersion ==
    [][ (PageDirectSave(1) /\ pageRes'.outcome = "ok" /\ pageDoc[1].enableVersioning) =>
          LET d == pageDoc[1]
              d2 == pageDoc'[1]
              n == Len(d.versionHistory)
          IN IF IsModified(d, "content")
             THEN /\ Len(d2.versionHistory) = n + 1
                  /\ SubSeq(d2.versionHistory, 1, n) = d.versionHistory
                  /\ d2.versionHistory[n + 1].versionNumber = d.currentVersion
                  /\ d2.currentVersion = d.currentVersion + 1
             ELSE /\ d2.versionHistory = d.versionHistory
                  /\ d2.currentVersion = d.currentVersion ]_vars

\* C2 as stated: a successful save of a published page without publishedAt
\* stamps publishedAt with the save time, and once publishedAt is set every
\* later save, publish() included, leaves publishedAt unchanged.
C2_PublishedAtNeverRestamped ==
    [][ (PageDirectSave(1) \/ PageMethodSave(1) \/ Publish(1)) =>
          LET d == pageDoc[1]
              d2 == pageDoc'[1]
          IN /\ (d2.status = "published" /\ d.publishedAt = Null /\ pageRes'.outcome = "ok")
                    => (d2.publishedAt = now /\ pageStore'.publishedAt = now)
             /\ d.publishedAt # Null => d2.publishedAt = d.publishedAt ]_vars

\* C2 amended: a successful save of a published page without publishedAt
\* stamps publishedAt with the save time; a save issued directly or by
\* archive(), revert(), updateAnalytics(), addRelatedPage() or toggleComments()
\* on a document whose publishedAt is set leaves it unchanged; publish() is
\* the exception and sets publishedAt to the call time on every call.
C2_PublishedAtKeptExceptPublish ==
    [][ /\ (PageDirectSave(1) \/ PageMethodSave(1)) =>
              LET d == pageDoc[1]
                  d2 == pageDoc'[1]
              IN /\ (d2.status = "published" /\ d.publishedAt = Null
                        /\ pageRes'.outcome = "ok")
                        => (d2.publishedAt = now /\ pageStore'.publishedAt = now)
                 /\ d.publishedAt # Null => d2.publishedAt = d.publishedAt
        /\ Publish(1) =>
              /\ pageDoc'[1].publishedAt = now
              /\ pageRes'.outcome = "ok" => pageStore'.publishedAt = now ]_vars

\* C2 witness: a save other than publish() went through at a time later than
\* the publishedAt the page already carried.
C2_Witness ==
    /\ pageRes.op \in {"save", "archive", "revert", "updateAnalytics",
                       "addRelatedPage", "toggleComments"}
    /\ pageRes.outcome = "ok"
    /\ pageStore.publishedAt # Null
    /\ pageStore.updatedAt > pageStore.publishedAt

\* C3: revert(vn) with no versionHistory entry numbered vn fails, changes no
\* field in memory or in the store and issues no save; with such an entry it
\* replaces title and content by the entry's and saves the document (every
\* path the revert changed is written when the save passes validation).
C3_RevertAbsentOrRestore ==
    [][ \A vn \in VersionInputs :
          Revert(1, vn) =>
            LET d == pageDoc[1]
                d2 == pageDoc'[1]
                i == FindVersion(d.versionHistory, vn)
            IN IF i = Null
               THEN /\ pageRes'.outcome = "VersionNotFound"
                    /\ pageDoc' = pageDoc
                    /\ pageStore' = pageStore
               ELSE /\ d2.title = d.versionHistory[i].title
                    /\ d2.content = d.versionHistory[i].content
                    /\ pageRes'.outcome \in {"ok", "ValidationError"}
                    /\ pageRes'.outcome = "ok" <=> d.status \in PageStatuses
                    /\ pageRes'.outcome = "ok" =>
                         /\ pageStore'.updatedAt = now
                         /\ \A p \in {"title", "content"} :
                              (IsModified(d, p) \/ d[p] # d.versionHistory[i][p])
                                 => pageStore'[p] = d.versionHistory[i][p]
                    /\ pageRes'.outcome # "ok" => pageStore' = pageStore ]_vars

\* C3 witness: a revert to the stored snapshot went through and the persisted
\* page now carries the snapshot's title and content.
C3_Witness ==
    /\ pageRes.op = "revert"
    /\ pageRes.outcome = "ok"
    /\ \E i \in 1..Len(pageDoc[1].versionHistory) :
          /\ pageDoc[1].versionHistory[i].versionNumber = pageRes.arg
          /\ pageStore.title = pageDoc[1].versionHistory[i].title
          /\ pageStore.content = pageDoc[1].versionHistory[i].content
          /\ pageStore.title # TitleA

\* C5: every incrementPageView call on the existing page raises the stored
\* analytics.pageViews by one, whatever saves of loaded copies interleave:
\* after N calls the stored counter is N above its initial value 0.
C5_PageViewsCountCalls == pageStore.pageViews = pvCalls

\* C5 witness: all the calls were made and an editor then saved a copy it
\* had loaded before any of them.
C5_Witness ==
    /\ pvCalls = MaxViews
    /\ pageRes.op = "save"
    /\ pageRes.outcome = "ok"
    /\ \E e \in Editors : pageDoc[e].pageViews = 0 /\ pageDoc[e].content = pageStore.content
    /\ pageStore.content # ContentA

----------------------------------------------------------------------------
(* Media: properties *)

\* C4: no increment is lost: after the callers' incrementViews(),
\* incrementDownloads() and incrementShares() calls, in any interleaving of
\* their loads and saves, each stored counter is above its initial value 0 by
\* exactly the number of calls made on it.
C4_NoLostIncrement ==
    /\ mediaStore.views = mediaCalls.views
    /\ mediaStore.downloads = mediaCalls.downloads
    /\ mediaStore.shares = mediaCalls.shares

\* C7: softDelete(userId) leaves the record inactive with deletedAt and
\* deletedBy both non-null, whatever userId it is called with; restore()
\* leaves it active with deletedAt and deletedBy null.
C7_SoftDeleteMarksActorAndTime ==
    /\ mediaRes.op = "softDelete" =>
          LET d == mediaDoc[mediaRes.by]
          IN ~d.isActive /\ d.deletedAt # Null /\ d.deletedBy # Null
    /\ mediaRes.op = "restore" =>
          LET d == mediaDoc[mediaRes.by]
          IN d.isActive /\ d.deletedAt = Null /\ d.deletedBy = Null

\* C8: getByCategory, getPublicMedia and searchMedia never return a
\* soft-deleted document, for every filter the caller passes, a filter that
\* names isActive included.
C8_ActiveQueriesExcludeDeleted ==
    \A k \in 1..Len(queryRes.result) : mediaColl[queryRes.result[k]].isActive

IsLowerTrimmed(t) ==
    /\ \A i \in 1..Len(t) : t[i] # UpperA
    /\ Len(t) > 0 => (t[1] # Blank /\ t[Len(t)] # Blank)

FirstIndex(x, q) == CHOOSE i \in 1..Len(q) : q[i] = x /\ \A j \in 1..(i - 1) : q[j] # x

\* C9: after a successful save the tags are lower-cased and trimmed, pairwise
\* different, exactly the tags of the normalized input in the order of their
\* first occurrence there, and persisted so; saving again changes nothing.
C9_TagsNormalizedUniqueOrdered ==
    [][ (MediaSave(1) /\ mediaRes'.outcome = "ok") =>
          LET in == mediaDoc[1].tags
              norm == [i \in 1..Len(in) |-> Trim(ToLowerCase(in[i]))]
              out == mediaDoc'[1].tags
              again == MediaSaveResult(mediaDoc'[1], mediaStore')
          IN /\ \A i \in 1..Len(out) : IsLowerTrimmed(out[i])
             /\ \A i, j \in 1..Len(out) : i # j => out[i] # out[j]
             /\ {out[i] : i \in 1..Len(out)} = {norm[i] : i \in 1..Len(norm)}
             /\ \A i, j \in 1..Len(out) :
                   i < j => FirstIndex(out[i], norm) < FirstIndex(out[j], norm)
             /\ mediaStore'.tags = out
             /\ again.outcome = "ok"
             /\ again.doc.tags = out
             /\ again.store.tags = out ]_vars

\* C9 witness: a save went through that stored two different tags.
C9_Witness ==
    /\ mediaRes.op = "save"
    /\ mediaRes.outcome = "ok"
    /\ mediaStore.tags = << <<LowerA>>, <<LowerB>> >>
    /\ mediaDoc[1].tags = mediaStore.tags

----------------------------------------------------------------------------
(* Settings: properties *)

\* C6: saving Settings fails when contact.email and contact.phone are both
\* empty, and succeeds, all other fields being valid, when at least one of
\* the two is present.
C6_OneContactChannelSuffices ==
    [][ SettingsSave =>
          LET d == settingsDoc
              othersValid ==
                  /\ d.email # "" => EmailMatches(d.email)
                  /\ d.passwordMinLength >= PasswordMinLengthFloor
                  /\ d.imageQuality >= ImageQualityMin
                  /\ d.imageQuality <= ImageQualityMax
          IN /\ (d.email = "" /\ d.phone = "") => settingsRes' # "ok"
             /\ ((d.email # "" \/ d.phone # "") /\ othersValid) => settingsRes' = "ok" ]_vars

----------------------------------------------------------------------------
(* User: properties *)

\* C10: a save with the password not modified leaves the stored hash as it
\* was; a save with the password set to a new plaintext stores a hash, not
\* the plaintext, that comparePassword accepts for the new plaintext and
\* rejects for the old one; the stored value is always one hash of the
\* current plaintext, never a hash of a hash.
C10_PasswordHashedOnce ==
    [][ /\ UserSave =>
              IF userRes'.outcome # "ok" THEN userStore' = userStore
              ELSE IF ~IsModified(userDoc, "password")
              THEN userStore'.password = userStore.password
              ELSE LET new == userDoc.password
                       old == userPlain
                   IN /\ userStore'.password # new
                      /\ userDoc'.password = userStore'.password
                      /\ ComparePassword(userDoc', new)
                      /\ old # new => ~ComparePassword(userDoc', old)
        /\ \E salt \in Salts : userStore'.password = BcryptHash(userPlain', salt) ]_vars

\* C10 witness: the password was changed from PlainOld to PlainNew and saved,
\* and a later save of the profile alone went through.
C10_Witness ==
    /\ userRes = [op |-> "save", outcome |-> "ok"]
    /\ userPlain = PlainNew
    /\ userStore.bio # <<>>
    /\ ComparePassword(userDoc, PlainNew)
    /\ ~ComparePassword(userDoc, PlainOld)

\* C11: the object getPublicProfile() returns has none of the keys password,
\* verificationToken, passwordResetToken, passwordResetExpires, whatever the
\* document holds, and the call changes neither the document nor the stored
\* record (the four fields stay on it).
C11_PublicProfileOmitsSecrets ==
    [][ (userRes'.op = "getPublicProfile" /\ GetPublicProfile) =>
          /\ DOMAIN userRet' \cap {"password", "verificationToken",
                                   "passwordResetToken", "passwordResetExpires"} = {}
          /\ userDoc' = userDoc
          /\ userStore' = userStore ]_vars

\* C11 witness: the profile was taken of a document holding all four
\* sensitive fields, and they are still on the document.
C11_Witness ==
    /\ userRes.op = "getPublicProfile"
    /\ \A k \in SensitiveKeys : Present(userDoc, k)
    /\ DOMAIN userRet = {"bio"}

\* C12: generatePasswordResetToken() returns the plaintext token T, leaves
\* passwordResetToken = hash(T), which is not T, and passwordResetExpires =
\* call time + 30 minutes on the user; T is in no field of the user; and the
\* hash left by an earlier call with another token is gone, so only the
\* latest token matches.
C12_ResetTokenStoredHashed ==
    [][ \A t \in ResetTokens :
          (userRes'.op = "generatePasswordResetToken" /\ GeneratePasswordResetToken(t)) =>
            /\ userRet' = t
            /\ userDoc'.passwordResetToken = Sha256Hex(t)
            /\ userDoc'.passwordResetToken # t
            /\ userDoc'.passwordResetExpires = now + 30 * 60 * 1000
            /\ \A k \in {"password", "bio", "verificationToken", "passwordResetToken"} :
                  userDoc'[k] # t
            /\ \A t2 \in ResetTokens \ {t} :
                  userDoc'.passwordResetToken # Sha256Hex(t2) ]_vars

\* C12 witness: a second token was generated after the first one had been
\* saved; the document now carries the hash of the second token only.
C12_Witness ==
    /\ userRes.op = "generatePasswordResetToken"
    /\ userStore.passwordResetToken # Unset
    /\ userDoc.passwordResetToken = Sha256Hex(userRet)
    /\ userDoc.passwordResetToken # userStore.passwordResetToken
    /\ userDoc.passwordResetExpires > userStore.passwordResetExpires

\* C13: connectDB exits the process with code 1 and returns no connection
\* when the requested environment has no connection URI or when the
\* connection attempt fails; a call makes at most one connection attempt,
\* exactly one when the URI is configured, and returns the connection only
\* after that attempt succeeded.
C13_ConnectOnceOrExit ==
    [][ \A environment \in EnvironmentInputs, ok \in BOOLEAN :
          ConnectDB(environment, ok) =>
            LET e == EffectiveEnvironment(environment)
                configured == HasUrl(dbEnv, e)
            IN /\ (~configured \/ ~ok) =>
                     /\ ~dbProc'.alive
                     /\ dbProc'.exitCode = 1
                     /\ dbRes'.returned = "none"
               /\ dbRes'.attempts = IF configured THEN 1 ELSE 0
               /\ dbRes'.returned = "connection" =>
                     /\ configured /\ ok
                     /\ dbProc'.alive /\ dbProc'.connected ]_vars

\* C13 witness: a first call returned the connection, a second call for the
\* production environment found no URI and exited the process.
C13_Witness ==
    /\ dbRes.op = "connectDB"
    /\ dbRes.environment = "production"
    /\ dbRes.attempts = 0
    /\ dbRes.returned = "none"
    /\ ~dbProc.alive /\ dbProc.exitCode = 1
    /\ dbProc.listeners = 2

\* C14: whatever the status of the page (draft, published, scheduled,
\* archived, on the document or in the store), publish() is accepted and
\* leaves status = published with publishedAt = call time, and archive() is
\* accepted and leaves status = archived, on the document and in the store;
\* so the status after a sequence of calls is the one of the last call.  The
\* save behind the call needs the required title and content to be there.
C14_PublishArchiveFromAnyStatus ==
    [][ LET d == pageDoc[1]
            d2 == pageDoc'[1]
            complete == Len(d.title) > 0 /\ Len(d.content) > 0
        IN /\ (Publish(1) /\ complete) =>
                 /\ pageRes'.outcome = "ok"
                 /\ d2.status = "published" /\ pageStore'.status = "published"
                 /\ d2.publishedAt = now /\ pageStore'.publishedAt = now
           /\ (Archive(1) /\ complete) =>
                 /\ pageRes'.outcome = "ok"
                 /\ d2.status = "archived" /\ pageStore'.status = "archived" ]_vars

\* C14 witness: a page published after the first clock tick was archived
\* afterwards; the stored status is the one of the last call.
C14_Witness ==
    /\ pageRes.op = "archive" /\ pageRes.outcome = "ok"
    /\ pageStore.status = "archived"
    /\ pageDoc[1].status = "archived"
    /\ pageStore.publishedAt > 1

\* C15: after every successful save of a page, a meta title that was empty
\* is the first 60 characters of the (non-empty) title, a meta description
\* that was empty is the first 160 characters of the excerpt when that is
\* non-empty, a meta title or meta description that was provided is kept as
\* provided, and updatedAt is the save time, on the document and in the
\* store, whatever the save changed.
C15_MetaFilledAndUpdatedAtRefreshed ==
    [][ (PageSave(1) /\ pageRes'.outcome = "ok") =>
          LET d == pageDoc[1]
              d2 == pageDoc'[1]
              Prefix(p, s, n) ==
                  /\ Len(p) = (IF Len(s) < n THEN Len(s) ELSE n)
                  /\ \A i \in 1..Len(p) : p[i] = s[i]
          IN /\ (Len(d.metaTitle) = 0 /\ Len(d.title) > 0) =>
                   /\ Prefix(d2.metaTitle, d.title, 60)
                   /\ pageStore'.metaTitle = d2.metaTitle
             /\ (Len(d.metaDescription) = 0 /\ Len(d.excerpt) > 0) =>
                   /\ Prefix(d2.metaDescription, d.excerpt, 160)
                   /\ pageStore'.metaDescription = d2.metaDescription
             /\ Len(d.metaTitle) > 0 =>
                   d2.metaTitle = d.metaTitle /\ pageStore'.metaTitle = d.metaTitle
             /\ Len(d.metaDescription) > 0 =>
                   /\ d2.metaDescription = d.metaDescription
                   /\ pageStore'.metaDescription = d.metaDescription
             /\ d2.updatedAt = now /\ pageStore'.updatedAt = now ]_vars

\* C15 witness: a page with a 61-character title and a 161-character excerpt
\* was saved after a clock tick with both seo fields empty.
C15_Witness ==
    /\ pageRes.op = "save" /\ pageRes.outcome = "ok"
    /\ pageStore.title = TitleLong
    /\ Len(pageStore.metaTitle) = 60
    /\ pageStore.excerpt = ExcerptLong
    /\ Len(pageStore.metaDescription) = 160
    /\ pageStore.updatedAt > 1

\* C16: the version-history append is no part of the primary write of a
\* save and comes only after it: when the primary write has committed, the
\* stored page has the new content and the stored version history is still
\* the one from before the save, without an entry for it; an execution that
\* stops there leaves the store that way, nothing is rolled back.
C16_AppendAfterPrimaryWrite ==
    [][ /\ (PageSaveBegin(1) /\ pageRes'.outcome = "written") =>
              /\ pageStore'.content = pageDoc[1].content
              /\ pageStore'.versionHistory = pageStore.versionHistory
              /\ pageDoc'[1].versionHistory = pageDoc[1].versionHistory
        /\ PageCrash(1) =>
              /\ pageStore' = pageStore
              /\ pageStore'.content = pageDoc[1].content
              /\ pageStore'.versionHistory = pageDoc[1].versionHistory ]_vars

\* C16 witness: a versioned page with an empty history got new content and
\* the process stopped after the primary write.
C16_Witness ==
    /\ pageRes.outcome = "crashed"
    /\ pageStore.enableVersioning
    /\ pageStore.content = ContentB
    /\ pageStore.versionHistory = <<>>

C18_ImageDimensionsPositive ==
    [][ MediaSave(1) =>
          LET d == mediaDoc[1]
              bad == \/ (d.width # Null /\ d.width <= 0)
                     \/ (d.height # Null /\ d.height <= 0)
          IN /\ (d.mediaType = "image" /\ bad) =>
                   mediaRes'.outcome # "ok" /\ mediaStore' = mediaStore
             /\ d.mediaType # "image" => mediaRes'.outcome = "ok" ]_vars

\* C19: a save of a Settings document whose security.passwordMinLength is
\* below 6 or whose performance.imageQuality is outside 1..100 fails and
\* writes nothing, so every persisted Settings document has
\* passwordMinLength >= 6 and 1 <= imageQuality <= 100.
C19_SettingsNumbersInRange ==
    /\ [](settingsStore.saved =>
            /\ settingsStore.doc.passwordMinLength >= 6
            /\ settingsStore.doc.imageQuality >= 1
            /\ settingsStore.doc.imageQuality <= 100)
    /\ [][ (SettingsSave /\ (\/ settingsDoc.passwordMinLength < 6
                              \/ settingsDoc.imageQuality < 1
                              \/ settingsDoc.imageQuality > 100)) =>
             /\ settingsRes' # "ok"
             /\ settingsStore' = settingsStore ]_vars

\* C19 witness: after a save that persisted the document, a save with
\* passwordMinLength 5 and image quality 101 was rejected.
C19_Witness ==
    /\ settingsStore.saved
    /\ settingsRes \in {"ValidationError", "PasswordLengthError", "ImageQualityError"}
    /\ settingsDoc.email # "" /\ settingsDoc.phone # ""
    /\ settingsDoc.passwordMinLength = 5
    /\ settingsDoc.imageQuality = 101
    /\ settingsStore.doc.passwordMinLength = 6
    /\ settingsStore.doc.imageQuality = 100

\* C20: in every state reachable by saves, publish() and archive() calls the
\* persisted status is one of draft, published, scheduled, archived; a save
\* of a document whose status is any other value fails and leaves the
\* persisted status, and the rest of the stored page, unchanged.
C20_StatusInEnum ==
    /\ [](pageStore.status \in {"draft", "published", "scheduled", "archived"})
    /\ [][ (PageSave(1) /\ pageDoc[1].status \notin
                              {"draft", "published", "scheduled", "archived"}) =>
             /\ pageRes'.outcome # "ok"
             /\ pageStore'.status = pageStore.status
             /\ pageStore' = pageStore ]_vars

\* C20 witness: a save with a status outside the enum was rejected on a
\* page whose persisted status had been changed to scheduled before.
C20_Witness ==
    /\ pageRes.op = "save" /\ pageRes.outcome = "ValidationError"
    /\ pageDoc[1].status \notin PageStatuses
    /\ pageStore.status = "scheduled"

\* C21: fullCanonicalUrl is canonicalUrl whenever canonicalUrl is set to a
\* non-empty value, and "/" followed by pageSlug otherwise.
C21_FullCanonicalUrl ==
    [][ ReadFullCanonicalUrl =>
          /\ seoDoc.canonicalUrl # <<>> => seoRes'.value = seoDoc.canonicalUrl
          /\ seoDoc.canonicalUrl = <<>> =>
                /\ Len(seoRes'.value) = 1 + Len(seoDoc.pageSlug)
                /\ seoRes'.value[1] = "/"
                /\ \A i \in 1..Len(seoDoc.pageSlug) :
                      seoRes'.value[i + 1] = seoDoc.pageSlug[i] ]_vars

\* C21 witness: the virtual was read on a document without canonical URL
\* and gave the slug behind a slash.
C21_Witness ==
    /\ seoRes.op = "fullCanonicalUrl"
    /\ seoDoc.canonicalUrl = <<>>
    /\ seoDoc.pageSlug = <<LowerA, LowerB>>
    /\ seoRes.value = <<"/", LowerA, LowerB>>

IsPrefix(a, b) == Len(a) <= Len(b) /\ \A i \in 1..Len(a) : a[i] = b[i]

\* C22: the version history is append-only: no save, publish(), archive(),
\* revert(), updateAnalytics(), addRelatedPage() or toggleComments() removes,
\* reorders or alters an existing entry, in the store or on the document;
\* after revert(v) entry v and the entries after it are still there.
C22_HistoryAppendOnly ==
    [][ /\ IsPrefix(pageStore.versionHistory, pageStore'.versionHistory)
        /\ IsPrefix(pageDoc[1].versionHistory, pageDoc'[1].versionHistory) ]_vars

\* C22 witness: the page was reverted to version 1 of two; both snapshots
\* are still in the stored history.
C22_Witness ==
    /\ pageRes.op = "revert" /\ pageRes.arg = 1 /\ pageRes.outcome = "ok"
    /\ pageStore.title = TitleB /\ pageStore.content = ContentB
    /\ pageStore.versionHistory = SeededTwo
    /\ pageDoc[1].versionHistory = SeededTwo

StrictlyIncreasing(h) ==
    \A i, j \in 1..Len(h) : i < j => h[i].versionNumber < h[j].versionNumber

C24_PublishedHasPublishedAt ==
    /\ [](pageStore.status = "published" => pageStore.publishedAt # Null)
    /\ [][ (pageRes'.op = "archive" /\ pageRes'.outcome = "ok")
              => pageStore'.publishedAt = pageStore.publishedAt ]_vars

\* C24 witness: a page published by the second editor at an earlier time
\* was archived by the first; the stored publishedAt is still the earlier
\* time.
C24_Witness ==
    /\ pageRes.op = "archive" /\ pageRes.outcome = "ok"
    /\ pageStore.status = "archived" /\ pageDoc[1].status = "archived"
    /\ pageDoc[2].status = "published"
    /\ pageStore.publishedAt # Null /\ pageStore.publishedAt < now
    /\ pageStore.updatedAt = now

MediaCounters == {"views", "downloads", "shares"}

IsIncrement(op) == op \in {"incrementViews", "incrementDownloads", "incrementShares"}

CounterOf(op) ==
    CASE op = "incrementViews" -> "views"
      [] op = "incrementDownloads" -> "downloads"
      [] op = "incrementShares" -> "shares"

\* C25: for a media record changed only through softDelete(), restore() and
\* the three increment methods, the stored record has isActive = false
\* exactly when deletedAt is non-null; an increment raises its own stored
\* counter by exactly 1 and leaves isActive, deletedAt, deletedBy and the
\* other two counters as they were, on a soft-deleted record too.
C25_DeletionFlagsAgreeAndIncrementsFramed ==
    /\ []((~mediaStore.isActive) <=> (mediaStore.deletedAt # Null))
    /\ [][ (IsIncrement(mediaRes'.op) /\ mediaCalls' # mediaCalls) =>
             /\ mediaStore'[CounterOf(mediaRes'.op)]
                   = mediaStore[CounterOf(mediaRes'.op)] + 1
             /\ \A k \in MediaCounters \ {CounterOf(mediaRes'.op)} :
                   mediaStore'[k] = mediaStore[k]
             /\ mediaStore'.isActive = mediaStore.isActive
             /\ mediaStore'.deletedAt = mediaStore.deletedAt
             /\ mediaStore'.deletedBy = mediaStore.deletedBy ]_vars

============================================================================
